---- MODULE Spec2Model ----
(***************************************************************************)
(* Model of .sandbox/auto_scale.py: the buildfarm worker autoscaler.       *)
(* One process, main(), loops: scale(g), then time.sleep().  An exception  *)
(* nothing catches ends the process (pc = "crashed").                      *)
(***************************************************************************)
EXTENDS Integers, Sequences, FiniteSets, TLC

VARIABLES
    \* module globals set by load_config()
    min_worker, max_worker, scrape_period, delay_of_retry, trending_duration,
    \* Global (g)
    expected_worker_num, is_scale_up_trending, trending_start_time,
    \* main(): position, the value scale(g) returned, the pending sleep
    pc, err, sleep_time,
    \* the wall clock read by datetime.datetime.now()
    clock,
    \* the sandbox definition held by the fleet manager: its "containers"
    sandbox,
    \* locals of scale_down() while its loop runs
    template, workers_in_template, scale_num, i, j, metrics, has_idled_worker,
    \* observations of the current tick and of the run so far (history, no
    \* effect on the program)
    tick, hist

config == <<min_worker, max_worker, scrape_period, delay_of_retry, trending_duration>>
g == <<expected_worker_num, is_scale_up_trending, trending_start_time>>
locals == <<template, workers_in_template, scale_num, i, j, metrics, has_idled_worker>>
vars == <<config, g, pc, err, sleep_time, clock, sandbox, locals, tick, hist>>

----------------------------------------------------------------------------
(* Bounds of the model *)

\* the clock stops the model at MaxTime seconds after process start
MaxTime == 8
\* largest worker_pool_size the server reports
MaxPool == 3

(* Program constants *)
default_scrape_period == 5
default_delay_of_retry == 1
default_trending_duration == 10
default_min_worker == 1
default_max_worker == 4
initial_expected_worker_num == 1

----------------------------------------------------------------------------
(* Configuration: load_config() over the environment.  An environment     *)
(* variable is <<>> when unset and <<n>> when set to the text of n.        *)
(* The periods are set short so that several debounce windows fit below    *)
(* MaxTime; the worker limits range over the default and over overrides.   *)

EnvMinWorker == {<<>>, <<0>>, <<3>>}
EnvMaxWorker == {<<>>, <<2>>}
EnvScrapePeriod == {<<2>>}
EnvDelayOfRetry == {<<>>}
EnvTrendingDuration == {<<3>>}

load_env_or_default(v, default) == IF v = <<>> THEN default ELSE v[1]

load_config(env) ==
    LET mn0 == load_env_or_default(env.BF_MIN_WORKER, default_min_worker)
        mn  == IF mn0 < 1 THEN 1 ELSE mn0
        mx0 == load_env_or_default(env.BF_MAX_WORKER, default_max_worker)
        mx  == IF mx0 < mn THEN mn ELSE mx0
        sp0 == load_env_or_default(env.BF_SCRAPE_PERIOD, default_scrape_period)
        sp  == IF sp0 <= 0 THEN 1 ELSE sp0
        dr0 == load_env_or_default(env.BF_SCALE_DELAY_OF_RETRY, default_delay_of_retry)
        dr  == IF dr0 < 0 THEN 0 ELSE dr0
        td  == load_env_or_default(env.BF_SCALE_TRENDING_DURATION, default_trending_duration)
    IN  [min_worker |-> mn, max_worker |-> mx, scrape_period |-> sp,
         delay_of_retry |-> dr, trending_duration |-> td]

Environments ==
    [BF_MIN_WORKER : EnvMinWorker, BF_MAX_WORKER : EnvMaxWorker,
     BF_SCRAPE_PERIOD : EnvScrapePeriod, BF_SCALE_DELAY_OF_RETRY : EnvDelayOfRetry,
     BF_SCALE_TRENDING_DURATION : EnvTrendingDuration]

----------------------------------------------------------------------------
(* The sandbox definition: a sequence of containers, each with a name.     *)

Container(name, image) == [name |-> name, image |-> image]

bf_server == Container("bf-server", "server")

\* "bf-worker" + str(ii)
WorkerNameOf(ii) ==
    CASE ii = 0 -> "bf-worker0" [] ii = 1 -> "bf-worker1" [] ii = 2 -> "bf-worker2"
      [] ii = 3 -> "bf-worker3" [] ii = 4 -> "bf-worker4" [] ii = 5 -> "bf-worker5"
      [] OTHER -> "bf-worker6"

\* name.startswith("bf-worker")
StartsWithBfWorker(name) == \E ii \in 0..6 : name = WorkerNameOf(ii)

InitialSandboxes ==
    { <<bf_server, Container("bf-worker0", "worker")>>,
      <<Container("bf-worker1", "worker"), bf_server,
        Container("bf-worker0", "worker"), Container("bf-worker2", "worker")>>,
      <<Container("bf-worker2", "worker-b"), bf_server>> }

\* workers_defined_in_template that knows one worker name only
workers_defined_in_template_first(t) ==
    SelectSeq(t, LAMBDA container : container.name = WorkerNameOf(0))

workers_defined_in_template(t) ==
    SelectSeq(t, LAMBDA container : StartsWithBfWorker(container.name))

has_bf_worker(workers, name) == \E k \in 1..Len(workers) : workers[k].name = name

\* alloc_worker_to_template that takes the last free index, not the first
alloc_worker_to_template_last(t, mx) ==
    LET workers == workers_defined_in_template(t)
        free == {ii \in 0..(mx - 1) : ~has_bf_worker(workers, WorkerNameOf(ii))}
    IN  IF free = {} THEN t
        ELSE LET ii == CHOOSE x \in free : \A y \in free : x >= y
             IN  Append(t, [workers[1] EXCEPT !.name = WorkerNameOf(ii)])

\* alloc_worker_to_template that appends the new worker to workers, the
\* filtered list, and hands that list back as the containers
alloc_worker_to_template_workers_only(t, mx) ==
    LET workers == workers_defined_in_template(t)
        free == {ii \in 0..(mx - 1) : ~has_bf_worker(workers, WorkerNameOf(ii))}
    IN  IF free = {} THEN t
        ELSE LET ii == CHOOSE x \in free : \A y \in free : x <= y
             IN  Append(workers, [workers[1] EXCEPT !.name = WorkerNameOf(ii)])

\* the first free index in range(0, max_worker); the template is returned
\* as it is when every index is taken
alloc_worker_to_template(t, mx) ==
    LET workers == workers_defined_in_template(t)
        free == {ii \in 0..(mx - 1) : ~has_bf_worker(workers, WorkerNameOf(ii))}
    IN  IF free = {} THEN t
        ELSE LET ii == CHOOSE x \in free : \A y \in free : x <= y
             IN  Append(t, [workers[1] EXCEPT !.name = WorkerNameOf(ii)])

RECURSIVE alloc_workers(_, _, _)
\* for i in range(0, scale_num): alloc_worker_to_template(template)
alloc_workers(t, n, mx) ==
    IF n <= 0 THEN t ELSE alloc_workers(alloc_worker_to_template(t, mx), n - 1, mx)

----------------------------------------------------------------------------
(* Metrics.  A value of the exposition text is a decimal numeral, kept in  *)
(* tenths, or text that float() rejects.                                   *)

Number(tenths) == [kind |-> "number", tenths |-> tenths]
Garbage == [kind |-> "garbage", tenths |-> 0]

\* float(v) raises ValueError
RaisesValueError(v) == v.kind # "number"
\* int(float(v)): truncation toward zero
IntOfFloat(v) == IF v.tenths >= 0 THEN v.tenths \div 10 ELSE -((-v.tenths) \div 10)

RECURSIVE SumIntOfFloat(_)
SumIntOfFloat(vs) == IF vs = <<>> THEN 0 ELSE IntOfFloat(Head(vs)) + SumIntOfFloat(Tail(vs))

\* What requests.get(bf_server_metrics_url) gives and parse_metrics() makes of
\* it: a key is absent, a string ("scalar": a line without labels) or a dict
\* by label ("labelled").
ServerResponse(status, qk, qv, pk, pv) ==
    [status |-> status, queue_kind |-> qk, queue_size |-> qv,
     pool_kind |-> pk, worker_pool_size |-> pv]

QueueTexts == { <<Number(0)>>, <<Number(0), Number(15)>>, <<Garbage>> }
PoolTexts == { Number(10 * n) : n \in 0..MaxPool } \cup { Garbage }

ServerResponses ==
    { ServerResponse("fail", "absent", <<>>, "absent", Garbage),
      ServerResponse("500", "absent", <<>>, "absent", Garbage) }
    \cup { ServerResponse("200", "absent", <<>>, "scalar", Number(10)),
           ServerResponse("200", "scalar", <<Number(10)>>, "scalar", Number(10)),
           ServerResponse("200", "labelled", <<Number(10)>>, "absent", Garbage),
           ServerResponse("200", "labelled", <<Number(10)>>, "labelled", Number(10)) }
    \cup { ServerResponse("200", "labelled", qv, "scalar", pv) :
             qv \in QueueTexts, pv \in PoolTexts }

Raise == [kind |-> "raise", queue_size |-> 0, worker_pool_size |-> 0]
Error == [kind |-> "err", queue_size |-> 0, worker_pool_size |-> 0]

\* (server_metrics, err), or the exception that leaves the function
scrape_buildfarm_server_metrics(resp) ==
    IF resp.status = "fail" THEN Raise            \* NameError: "return None,err"
    ELSE IF resp.status # "200" THEN Error
    ELSE IF resp.queue_kind = "absent" THEN Error
    ELSE IF resp.queue_kind = "scalar" THEN Raise \* str has no .items()
    ELSE IF \E k \in 1..Len(resp.queue_size) : RaisesValueError(resp.queue_size[k])
         THEN Raise
    ELSE IF resp.pool_kind = "absent" THEN Error
    ELSE IF resp.pool_kind = "labelled" THEN Raise \* float() of a dict
    ELSE IF RaisesValueError(resp.worker_pool_size) THEN Raise
    ELSE [kind |-> "ok", queue_size |-> SumIntOfFloat(resp.queue_size),
          worker_pool_size |-> IntOfFloat(resp.worker_pool_size)]

\* What requests.get of a worker's metrics gives
WorkerResponse(status, uk, uv) ==
    [status |-> status, usage_kind |-> uk, execution_slot_usage |-> uv]

WorkerResponses ==
    { WorkerResponse("fail", "absent", Garbage),
      WorkerResponse("500", "absent", Garbage),
      WorkerResponse("200", "absent", Garbage),
      WorkerResponse("200", "scalar", Number(0)),
      WorkerResponse("200", "scalar", Number(10)) }

BuildfarmWorkerMetrics(name, usage) ==
    [worker_name |-> name, execution_slot_usage |-> usage]

WorkerRaise == [kind |-> "raise", metric |-> BuildfarmWorkerMetrics("", 0)]
WorkerError == [kind |-> "err", metric |-> BuildfarmWorkerMetrics("", 0)]

\* scrape_buildfarm_worker_metrics that returns worker_metrics as constructed
\* (execution_slot_usage = 0, the class default) for any response with the key
scrape_buildfarm_worker_metrics_default(worker_name, resp) ==
    IF resp.status = "fail" THEN WorkerRaise
    ELSE IF resp.status # "200" THEN WorkerError
    ELSE IF resp.usage_kind = "absent" THEN WorkerError
    ELSE [kind |-> "ok", metric |-> BuildfarmWorkerMetrics(worker_name, 0)]

\* scrape_buildfarm_worker_metrics that answers an error response with
\* worker_metrics as constructed and err = None
scrape_buildfarm_worker_metrics_no_err(worker_name, resp) ==
    IF resp.status = "fail" THEN WorkerRaise
    ELSE IF resp.status # "200"
    THEN [kind |-> "ok", metric |-> BuildfarmWorkerMetrics(worker_name, 0)]
    ELSE IF resp.usage_kind = "absent"
    THEN [kind |-> "ok", metric |-> BuildfarmWorkerMetrics(worker_name, 0)]
    ELSE WorkerRaise

\* (worker_metrics, err), or the exception that leaves the function
scrape_buildfarm_worker_metrics(worker_name, resp) ==
    IF resp.status = "fail" THEN WorkerRaise       \* UnboundLocalError: err
    ELSE IF resp.status # "200" THEN WorkerError
    ELSE IF resp.usage_kind = "absent" THEN WorkerError
    ELSE WorkerRaise                               \* NameError: metric

----------------------------------------------------------------------------
(* scale(g): trend, target *)

\* trend_after that turns to scale up without restarting the time
trend_after_stale_up(up, start, queue_size, now) ==
    IF queue_size > 0
    THEN [up |-> TRUE, start |-> start]
    ELSE IF up THEN [up |-> FALSE, start |-> now] ELSE [up |-> up, start |-> start]

\* trend_after that keeps the old start time on a flip to scale down
trend_after_no_reset(up, start, queue_size, now) ==
    IF queue_size > 0
    THEN IF ~up THEN [up |-> TRUE, start |-> now] ELSE [up |-> up, start |-> start]
    ELSE IF up THEN [up |-> FALSE, start |-> start] ELSE [up |-> up, start |-> start]

\* lines 111-120: the direction and the time it started
trend_after(up, start, queue_size, now) ==
    IF queue_size > 0
    THEN IF ~up THEN [up |-> TRUE, start |-> now] ELSE [up |-> up, start |-> start]
    ELSE IF up THEN [up |-> FALSE, start |-> now] ELSE [up |-> up, start |-> start]

\* expected_after that raises the number whatever the worker pool size
expected_after_ungated(expected, up, start, now, worker_pool_size, td, mn, mx) ==
    IF now - start >= td
    THEN LET e1 == IF up THEN expected + 1 ELSE expected
             e2 == IF ~up /\ e1 >= worker_pool_size THEN e1 - 1 ELSE e1
             e3 == IF e2 > mx THEN mx ELSE e2
             e4 == IF e3 < mn THEN mn ELSE e3
         IN  e4
    ELSE expected

\* guarded_step with the guards dropped: the trend alone decides
guarded_step_unguarded(expected, up, worker_pool_size) ==
    IF up THEN expected + 1 ELSE expected - 1

\* lines 126-129: the +1 or -1 step, each under its guard
guarded_step(expected, up, worker_pool_size) ==
    LET e1 == IF up /\ expected <= worker_pool_size THEN expected + 1 ELSE expected
        e2 == IF ~up /\ e1 >= worker_pool_size THEN e1 - 1 ELSE e1
    IN  e2

\* lines 132-135: "Limit min and max worker"
limit_min_max(e, mn, mx) ==
    LET e3 == IF e > mx THEN mx ELSE e
        e4 == IF e3 < mn THEN mn ELSE e3
    IN  e4

\* lines 123-129: the expected worker number before the limits are applied
stepped(expected, up, start, now, worker_pool_size, td) ==
    IF now - start >= td THEN guarded_step(expected, up, worker_pool_size) ELSE expected

\* lines 123-135: the expected worker number after the tick
expected_after(expected, up, start, now, worker_pool_size, td, mn, mx) ==
    IF now - start >= td
    THEN limit_min_max(guarded_step(expected, up, worker_pool_size), mn, mx)
    ELSE expected

(* The fleet CLI: "cs sandbox show" and "cs sandbox edit" *)
FetchResults == {"ok", "nonzero", "bad_json"}
SubmitResults == {"ok", "nonzero"}

\* (data, err) of sandbox_template(g)
sandbox_template(doc, fetch) ==
    IF fetch = "nonzero" THEN [data |-> <<>>, err |-> "stderr"]
    ELSE IF fetch = "bad_json" THEN [data |-> <<>>, err |-> "JSONDecodeError"]
    ELSE [data |-> doc, err |-> "None"]

\* scale_up(g, server_metrics): what it returns (ret), or that it raises, the
\* document the fleet manager holds afterwards and the CLI calls made
scale_up(expected, doc, fetch, submit, mx) ==
    LET t == sandbox_template(doc, fetch)
        workers == workers_defined_in_template(t.data)
        n == expected - Len(workers)
    IN  IF t.err # "None"
        THEN [kind |-> "return", ret |-> t.err, doc |-> doc, submits |-> 0,
              sent |-> <<>>]
        ELSE IF n <= 0
        THEN [kind |-> "return", ret |-> "None", doc |-> doc, submits |-> 0,
              sent |-> <<>>]
        ELSE IF workers = <<>>                     \* workers[0]: IndexError
        THEN [kind |-> "raise", ret |-> "None", doc |-> doc, submits |-> 0,
              sent |-> <<>>]
        ELSE IF submit # "ok"                      \* result.stderr is not captured
        THEN [kind |-> "return", ret |-> "None", doc |-> doc, submits |-> 1,
              sent |-> alloc_workers(t.data, n, mx)]
        ELSE [kind |-> "return", ret |-> "None",
              doc |-> alloc_workers(t.data, n, mx), submits |-> 1,
              sent |-> alloc_workers(t.data, n, mx)]

\* lines 187-191 of scale_down: the template after one pass of the loop
idle_workers_of(ms) == SelectSeq(ms, LAMBDA x : x.execution_slot_usage = 0)

remove_first_idle(t, ms) ==
    LET idle_workers == idle_workers_of(ms)
    IN  IF idle_workers = <<>> THEN t
        ELSE SelectSeq(t, LAMBDA container : container.name # idle_workers[1].worker_name)

Names(t) == { t[k].name : k \in 1..Len(t) }

----------------------------------------------------------------------------
(* The process *)

NoLocals ==
    /\ template = <<>> /\ workers_in_template = <<>> /\ scale_num = 0
    /\ i = 0 /\ j = 0 /\ metrics = <<>> /\ has_idled_worker = FALSE

NoTick ==
    [scrape |-> "none", status |-> "none", now |-> 0, queue_size |-> 0,
     worker_pool_size |-> 0, path |-> "none", fetch |-> "none", submit |-> "none",
     fetches |-> 0, submits |-> 0, removed |-> {}, passes |-> 0,
     idle |-> {}, busy |-> {}, failed |-> {}, raised |-> "none",
     queue_kind |-> "none", pool_kind |-> "none", unclamped |-> 0, sent |-> <<>>,
     dry |-> FALSE]

Init ==
    /\ \E env \in Environments :
         LET c == load_config(env)
         IN  /\ min_worker = c.min_worker
             /\ max_worker = c.max_worker
             /\ scrape_period = c.scrape_period
             /\ delay_of_retry = c.delay_of_retry
             /\ trending_duration = c.trending_duration
    /\ expected_worker_num = initial_expected_worker_num
    /\ is_scale_up_trending = TRUE
    /\ trending_start_time = 0
    /\ pc = "scale"
    /\ err = "None"
    /\ sleep_time = 0
    /\ clock = 0
    /\ sandbox \in InitialSandboxes
    /\ NoLocals
    /\ tick = NoTick
    /\ hist = [flip_time |-> 0, change_time |-> <<>>]

\* main(), lines 61-65: what follows the return of scale(g)
Return(ret) ==
    /\ pc' = "sleep"
    /\ err' = ret
    /\ sleep_time' = IF ret # "None" THEN delay_of_retry ELSE scrape_period

\* an exception no handler catches leaves main()
Uncaught ==
    /\ pc' = "crashed"
    /\ UNCHANGED <<err, sleep_time>>

ResetLocals ==
    /\ template' = <<>> /\ workers_in_template' = <<>> /\ scale_num' = 0
    /\ i' = 0 /\ j' = 0 /\ metrics' = <<>> /\ has_idled_worker' = FALSE

\* scale_down(g, server_metrics), lines 169-181: up to the loop
scale_down_entry(expected, doc, fetch) ==
    LET t == sandbox_template(doc, fetch)
        workers == workers_defined_in_template(t.data)
        n == Len(workers) - expected
    IN  IF t.err # "None"                       \* return log_error(err): None
        THEN [kind |-> "return", ret |-> "None", template |-> <<>>,
              workers |-> <<>>, scale_num |-> 0]
        ELSE IF n <= 0
        THEN [kind |-> "return", ret |-> "None", template |-> <<>>,
              workers |-> <<>>, scale_num |-> 0]
        ELSE [kind |-> "loop", ret |-> "None", template |-> t.data,
              workers |-> workers, scale_num |-> n]

\* One tick: scale(g) from its call in main() to its return, or to the loop of
\* scale_down when the tick scales down.
Scale ==
    /\ pc = "scale"
    /\ UNCHANGED <<config, clock>>
    /\ \E resp \in ServerResponses :
         LET r == scrape_buildfarm_server_metrics(resp)
             now == clock
             t0 == [NoTick EXCEPT !.status = resp.status, !.scrape = r.kind, !.now = now,
                                  !.queue_kind = resp.queue_kind,
                                  !.pool_kind = resp.pool_kind]
         IN  IF r.kind = "raise"
             THEN /\ Uncaught
                  /\ tick' = [t0 EXCEPT !.raised = "scrape_buildfarm_server_metrics"]
                  /\ UNCHANGED <<g, sandbox, locals, hist>>
             ELSE IF r.kind = "err"
             THEN /\ Return("False")
                  /\ tick' = t0
                  /\ UNCHANGED <<g, sandbox, locals, hist>>
             ELSE
               LET tr == trend_after(is_scale_up_trending, trending_start_time,
                                     r.queue_size, now)
                   e == expected_after(expected_worker_num, tr.up, tr.start, now,
                                       r.worker_pool_size, trending_duration,
                                       min_worker, max_worker)
                   t1 == [t0 EXCEPT !.queue_size = r.queue_size,
                                    !.worker_pool_size = r.worker_pool_size,
                                    !.unclamped =
                                        stepped(expected_worker_num, tr.up, tr.start, now,
                                                r.worker_pool_size, trending_duration)]
               IN  /\ is_scale_up_trending' = tr.up
                   /\ trending_start_time' = tr.start
                   /\ expected_worker_num' = e
                   /\ hist' = [flip_time |-> IF tr.up # is_scale_up_trending
                                             THEN now ELSE hist.flip_time,
                               change_time |-> IF e # expected_worker_num
                                               THEN <<now>> ELSE hist.change_time]
                   /\ IF e > r.worker_pool_size
                      THEN \E fetch \in FetchResults, submit \in SubmitResults :
                           LET u == scale_up(e, sandbox, fetch, submit, max_worker)
                           IN  /\ sandbox' = u.doc
                               /\ tick' = [t1 EXCEPT
                                     !.path = "scale_up", !.fetch = fetch, !.fetches = 1,
                                     !.submits = u.submits, !.sent = u.sent,
                                     !.submit = IF u.submits = 1 THEN submit ELSE "none",
                                     !.raised = IF u.kind = "raise" THEN "scale_up"
                                                ELSE "none"]
                               /\ IF u.kind = "raise" THEN Uncaught ELSE Return(u.ret)
                               /\ UNCHANGED locals
                      ELSE IF e < r.worker_pool_size
                      THEN \E fetch \in FetchResults :
                           LET d == scale_down_entry(e, sandbox, fetch)
                           IN  /\ UNCHANGED sandbox
                               /\ tick' = [t1 EXCEPT
                                     !.path = "scale_down", !.fetch = fetch, !.fetches = 1]
                               /\ IF d.kind = "return"
                                  THEN Return(d.ret) /\ UNCHANGED locals
                                  ELSE /\ pc' = "scale_down"
                                       /\ UNCHANGED <<err, sleep_time>>
                                       /\ template' = d.template
                                       /\ workers_in_template' = d.workers
                                       /\ scale_num' = d.scale_num
                                       /\ i' = 0
                                       /\ j' = 1
                                       /\ metrics' = <<>>
                                       /\ has_idled_worker' = FALSE
                      ELSE /\ Return("None")
                           /\ tick' = t1
                           /\ UNCHANGED <<sandbox, locals>>

\* How a worker's response counts in the tick's observations
Observe(t, name, resp) ==
    IF resp.status = "200" /\ resp.usage_kind # "absent"
          /\ ~RaisesValueError(resp.execution_slot_usage)
    THEN IF IntOfFloat(resp.execution_slot_usage) > 0
         THEN [t EXCEPT !.busy = @ \cup {name}, !.idle = @ \ {name}]
         ELSE [t EXCEPT !.idle = @ \cup {name}, !.busy = @ \ {name}]
    ELSE [t EXCEPT !.failed = @ \cup {name}, !.idle = @ \ {name}, !.busy = @ \ {name}]

\* scale_down, lines 182-201: one scrape of the inner loop and what follows it
\* (the selection after the last worker, the submission after the last pass)
ScaleDownStep ==
    /\ pc = "scale_down"
    /\ UNCHANGED <<config, clock, g, hist>>
    /\ \E resp \in WorkerResponses, submit \in SubmitResults :
         LET worker == workers_in_template[j]
             m == scrape_buildfarm_worker_metrics(worker.name, resp)
             ms == IF m.kind = "ok" THEN Append(metrics, m.metric) ELSE metrics
             t0 == Observe(tick, worker.name, resp)
             found == idle_workers_of(ms) # <<>>
             t2 == remove_first_idle(template, ms)
             t1 == [t0 EXCEPT !.passes = @ + 1,
                              !.removed = @ \cup (Names(template) \ Names(t2)),
                              !.dry = @ \/ ~found]
             has == has_idled_worker \/ found
         IN  IF m.kind = "raise"
             THEN /\ Uncaught
                  /\ tick' = [t0 EXCEPT !.raised = "scrape_buildfarm_worker_metrics"]
                  /\ UNCHANGED <<sandbox, locals>>
             ELSE IF j < Len(workers_in_template)
             THEN /\ j' = j + 1
                  /\ metrics' = ms
                  /\ tick' = t0
                  /\ UNCHANGED <<pc, err, sleep_time, sandbox, template,
                                 workers_in_template, scale_num, i,
                                 has_idled_worker>>
             ELSE IF i + 1 < scale_num
             THEN /\ i' = i + 1
                  /\ j' = 1
                  /\ metrics' = ms
                  /\ template' = t2
                  /\ has_idled_worker' = has
                  /\ tick' = t1
                  /\ UNCHANGED <<pc, err, sleep_time, sandbox,
                                 workers_in_template, scale_num>>
             ELSE IF ~has
             THEN /\ Return("None")
                  /\ tick' = t1
                  /\ UNCHANGED sandbox
                  /\ ResetLocals
             ELSE IF submit # "ok"          \* line 198: str has no attribute result
             THEN /\ Uncaught
                  /\ tick' = [t1 EXCEPT !.submits = @ + 1, !.submit = submit,
                                        !.sent = t2, !.raised = "scale_down"]
                  /\ UNCHANGED <<sandbox, workers_in_template, scale_num, i, j>>
                  /\ metrics' = ms
                  /\ template' = t2
                  /\ has_idled_worker' = has
             ELSE /\ Return("None")
                  /\ tick' = [t1 EXCEPT !.submits = @ + 1, !.submit = submit,
                                        !.sent = t2]
                  /\ sandbox' = t2
                  /\ ResetLocals

\* time.sleep(delay_of_retry) or time.sleep(scrape_period), then the next tick
Sleep ==
    /\ pc = "sleep"
    /\ clock + sleep_time <= MaxTime
    /\ clock' = clock + sleep_time
    /\ pc' = "scale"
    /\ tick' = NoTick
    /\ UNCHANGED <<config, g, err, sleep_time, sandbox, locals, hist>>

Next == Scale \/ ScaleDownStep \/ Sleep

Spec == Init /\ [][Next]_vars

----------------------------------------------------------------------------
(* Properties *)

Workers(doc) == workers_defined_in_template(doc)

Max(a, b) == IF a >= b THEN a ELSE b

\* C1: scale_down takes out of the template only a worker whose latest
\* observation in the tick is idle, never one observed busy, and the sandbox
\* loses only workers taken out of the template that way.
BusyWorkerNeverRemoved ==
    [][ /\ (tick'.removed \ tick.removed) \cap tick'.busy = {}
        /\ (tick'.removed \ tick.removed) \subseteq tick'.idle
        /\ (Names(sandbox) \ Names(sandbox')) \subseteq tick'.removed ]_vars

\* C1 witness: a scale-down that has run a selection pass and observed a busy
\* worker, which is still defined in the sandbox.
BusyWorkerKept ==
    /\ tick.path = "scale_down"
    /\ tick.passes >= 1
    /\ tick.busy # {}
    /\ tick.busy \subseteq Names(sandbox)

\* C2: a successful tick less than trending_duration after the latest flip of
\* the direction (a flip made by this tick included) leaves
\* expected_worker_num as it was.
DebounceNoChange ==
    [][ (pc = "scale" /\ tick'.scrape = "ok"
            /\ tick'.now - hist'.flip_time < trending_duration)
        => expected_worker_num' = expected_worker_num ]_vars

\* C2 witness: the direction has flipped down and back up, the latest flip in
\* this tick, more than trending_duration after process start, and
\* expected_worker_num has never changed.
FlappingWithoutChange ==
    /\ tick.scrape = "ok"
    /\ is_scale_up_trending
    /\ hist.flip_time = tick.now
    /\ tick.now >= trending_duration
    /\ trending_duration > 0
    /\ hist.change_time = <<>>
    /\ expected_worker_num = initial_expected_worker_num

\* C3 (as claimed): min_worker <= expected_worker_num <= max_worker in every
\* state.
ClampInvariant ==
    min_worker <= expected_worker_num /\ expected_worker_num <= max_worker

\* C4 (as claimed): no step changes expected_worker_num by more than one.
RateLimitOneStep ==
    [][ /\ expected_worker_num' - expected_worker_num <= 1
        /\ expected_worker_num - expected_worker_num' <= 1 ]_vars

\* C5 (as claimed): while the direction stays scale up, two successive rises
\* of expected_worker_num are at least trending_duration apart.
RisesOneWindowApart ==
    [][ (/\ is_scale_up_trending /\ is_scale_up_trending'
         /\ expected_worker_num' > expected_worker_num
         /\ hist.change_time # <<>>
         /\ hist.change_time[1] >= hist.flip_time)
        => tick'.now - hist.change_time[1] >= trending_duration ]_vars

\* C5 (amended): while the direction is scale up, expected_worker_num rises
\* only in a tick at least trending_duration after the direction started, only
\* when it was not above the worker_pool_size of that tick or was below
\* min_worker, and to no more than one above its old value or to min_worker.
RiseAfterWindowOneStepPerTick ==
    [][ (is_scale_up_trending' /\ expected_worker_num' > expected_worker_num)
        => /\ tick'.now - trending_start_time' >= trending_duration
           /\ \/ expected_worker_num <= tick'.worker_pool_size
              \/ expected_worker_num < min_worker
           /\ expected_worker_num' <= Max(expected_worker_num + 1, min_worker) ]_vars

\* C5 witness: with min_worker = 1 and a direction that never flipped,
\* expected_worker_num has risen twice (1 -> 2 -> 3), the second time in this
\* tick, less than two windows after process start.
TwoRisesWithinOneWindow ==
    /\ min_worker = 1
    /\ is_scale_up_trending
    /\ hist.flip_time = 0
    /\ expected_worker_num = 3
    /\ hist.change_time = <<tick.now>>
    /\ tick.scrape = "ok"
    /\ trending_duration > 0
    /\ tick.now < 2 * trending_duration

\* C6 (as claimed): a tick whose server scrape fails (no response, or a status
\* other than 200) returns an error, leaves the trend and the expected number
\* alone, touches no sandbox definition and is followed by a sleep of
\* delay_of_retry.
ScrapeErrorHandled ==
    [][ (pc = "scale" /\ tick'.status \in {"fail", "500"})
        => /\ pc' = "sleep"
           /\ err' # "None"
           /\ sleep_time' = delay_of_retry
           /\ UNCHANGED <<g, sandbox>>
           /\ tick'.fetches = 0
           /\ tick'.submits = 0 ]_vars

AllObserved(what) ==
    /\ tick.path = "scale_down"
    /\ what # {}
    /\ tick.idle \cup tick.busy \cup tick.failed = what

\* C7 (as claimed): a scale-down in which every worker answers idle goes on
\* to its end, and at its end the sandbox defines expected_worker_num workers.
ScaleInRemovesExcess ==
    AllObserved(tick.idle)
    => /\ pc # "crashed"
       /\ pc = "sleep" => Len(Workers(sandbox)) = expected_worker_num

\* C8 (as claimed): a scale-down in which every worker answers busy removes
\* nothing, submits nothing and returns without error, so that the loop
\* sleeps scrape_period.
AllBusyIsCleanNoOp ==
    AllObserved(tick.busy)
    => /\ pc # "crashed"
       /\ tick.removed = {}
       /\ tick.submits = 0
       /\ pc = "sleep" => (err = "None" /\ sleep_time = scrape_period)

\* A failure the loop is meant to survive has happened in the current tick
RecoverableFailure ==
    \/ tick.status \in {"fail", "500"}
    \/ tick.status = "200" /\ tick.scrape = "raise"
    \/ tick.failed # {}
    \/ tick.fetch \in {"nonzero", "bad_json"}
    \/ tick.submit = "nonzero"

\* C9 (as claimed): no tick in which a recoverable failure happened ends the
\* loop.
LoopSurvivesFailures == RecoverableFailure => pc # "crashed"

\* C10 (as claimed): a tick in which the fleet CLI exited non-zero, on the
\* fetch or on the submit, returns an error and is followed by a sleep of
\* delay_of_retry.
FleetErrorIsTickError ==
    (pc = "sleep" /\ (tick.fetch = "nonzero" \/ tick.submit = "nonzero"))
    => (err # "None" /\ sleep_time = delay_of_retry)


\* C11: in a successful tick the step made before the limits are applied is
\* +1 only under the ScaleUp trend with the old value <= worker_pool_size, -1
\* only under the ScaleDown trend with the old value >= worker_pool_size, and
\* nothing else; so the stepped value is within one of worker_pool_size on the
\* side it moved to.
ConvergenceGuard ==
    [][ (pc = "scale" /\ tick'.scrape = "ok")
        => LET old == expected_worker_num
               new == tick'.unclamped
               wps == tick'.worker_pool_size
           IN  /\ new \in {old - 1, old, old + 1}
               /\ new > old => (is_scale_up_trending' /\ old <= wps /\ new <= wps + 1)
               /\ new < old => (~is_scale_up_trending' /\ old >= wps /\ new >= wps - 1)
      ]_vars

\* C11 witness: a tick that raised the expected number to exactly
\* worker_pool_size + 1.
RaisedToPoolSizePlusOne ==
    /\ tick.scrape = "ok"
    /\ is_scale_up_trending
    /\ hist.change_time = <<tick.now>>
    /\ tick.unclamped = tick.worker_pool_size + 1
    /\ expected_worker_num = tick.unclamped
    /\ tick.worker_pool_size >= 1


\* C12: the direction starts as scale up; a successful tick turns it to scale
\* up exactly when it was scale down and queue_size > 0, to scale down exactly
\* when it was scale up and queue_size = 0, and sets trending_start_time to
\* the tick's now exactly when it turns; every other step (a tick that fails,
\* a step of scale_down, a sleep) leaves both alone.
TrendStateMachine ==
    /\ is_scale_up_trending = TRUE
    /\ [][ IF pc = "scale" /\ tick'.scrape = "ok"
           THEN /\ (~is_scale_up_trending /\ is_scale_up_trending')
                      <=> (~is_scale_up_trending /\ tick'.queue_size > 0)
                /\ (is_scale_up_trending /\ ~is_scale_up_trending')
                      <=> (is_scale_up_trending /\ tick'.queue_size = 0)
                /\ trending_start_time' =
                      IF is_scale_up_trending' # is_scale_up_trending
                      THEN tick'.now ELSE trending_start_time
           ELSE UNCHANGED <<is_scale_up_trending, trending_start_time>> ]_vars

\* C12 witness: a tick with queue_size > 0 has just turned the direction back
\* to scale up, after an earlier turn to scale down, and restarted the time,
\* after expected_worker_num had changed in an earlier tick.
TurnedBackUp ==
    /\ tick.scrape = "ok"
    /\ tick.queue_size > 0
    /\ is_scale_up_trending
    /\ hist.flip_time = tick.now
    /\ trending_start_time = tick.now
    /\ tick.now > 0
    /\ hist.change_time # <<>>
    /\ hist.change_time[1] < tick.now


WorkerCount(doc) == Cardinality({ k \in 1..Len(doc) : StartsWithBfWorker(doc[k].name) })

\* C14: a scale_up that fetched a document with fewer workers than expected
\* submits once a document that is the fetched one followed by expected -
\* |workers| entries, each a copy of a fetched worker entry but for its name,
\* the name being "bf-worker" and the lowest index below max_worker that no
\* entry before it has; the document then has expected workers with distinct
\* names, and becomes the sandbox when the submission succeeds.
ScaleOutAllocation ==
    [][ (/\ pc = "scale" /\ tick'.path = "scale_up" /\ tick'.fetch = "ok"
         /\ WorkerCount(sandbox) < expected_worker_num')
        => LET old == sandbox
               new == tick'.sent
               k == expected_worker_num' - WorkerCount(old)
           IN  /\ tick'.submits = 1
               /\ Len(new) = Len(old) + k
               /\ SubSeq(new, 1, Len(old)) = old
               /\ \A p \in 1..k :
                    LET entry == new[Len(old) + p]
                        before == Names(SubSeq(new, 1, Len(old) + p - 1))
                    IN  /\ \E q \in 1..Len(old) :
                              /\ StartsWithBfWorker(old[q].name)
                              /\ entry = [old[q] EXCEPT !.name = entry.name]
                        /\ \E ii \in 0..(max_worker - 1) :
                              /\ entry.name = WorkerNameOf(ii)
                              /\ entry.name \notin before
                              /\ \A jj \in 0..(ii - 1) : WorkerNameOf(jj) \in before
               /\ WorkerCount(new) = expected_worker_num'
               /\ Cardinality(Names(new)) = Len(new)
               /\ tick'.submit = "ok" => sandbox' = new
               /\ tick'.submit # "ok" => sandbox' = sandbox ]_vars

\* C14 witness: a scale_up has just added bf-worker3 to a sandbox that had
\* bf-worker2 from the start and bf-worker0, bf-worker1 from scale_up.
ScaledOutAroundUsedIndex ==
    /\ tick.path = "scale_up"
    /\ tick.submit = "ok"
    /\ tick.sent = sandbox
    /\ sandbox = << Container("bf-worker2", "worker-b"), bf_server,
                    Container("bf-worker0", "worker-b"),
                    Container("bf-worker1", "worker-b"),
                    Container("bf-worker3", "worker-b") >>


\* C15 (as claimed): a tick whose server scrape succeeds, and in which no
\* fleet CLI call fails, adds workers when the sandbox defines fewer than
\* expected, goes into the removal loop when it defines more, and submits
\* nothing when it defines exactly as many, whatever worker_pool_size is.
ReconciliationByWorkerSet ==
    [][ (/\ pc = "scale" /\ tick'.scrape = "ok"
         /\ tick'.fetch \notin {"nonzero", "bad_json"}
         /\ tick'.submit # "nonzero")
        => /\ WorkerCount(sandbox) < expected_worker_num'
                => WorkerCount(sandbox') > WorkerCount(sandbox)
           /\ WorkerCount(sandbox) > expected_worker_num' => pc' = "scale_down"
           /\ WorkerCount(sandbox) = expected_worker_num' => tick'.submits = 0 ]_vars


\* C16 (as claimed): once a pass of the scale-down loop has found no idle
\* worker, the loop is over: no further worker is queried in that tick.
StopOnNoIdleWorker == tick.dry => pc # "scale_down"


\* C17 (as claimed): a server scrape that was fetched with status 200 and
\* has worker_pool_size but no queue_size line is not an error: the tick
\* goes on with queue_size = 0.
AbsentQueueSizeIsZero ==
    (tick.status = "200" /\ tick.queue_kind = "absent"
        /\ tick.pool_kind = "scalar")
        => (tick.scrape = "ok" /\ tick.queue_size = 0)


\* C18: during scale-in, a worker whose metrics scrape returns an error adds
\* no entry to metrics, and no worker whose scrape returned an error in the
\* tick is removed from the template in that tick.
UnobservableWorkerProtected ==
    [][ pc = "scale_down" =>
          LET name == workers_in_template[j].name
              removed == tick'.removed \ tick.removed
          IN  /\ ( /\ name \in tick'.failed
                   /\ name \notin tick'.idle \cup tick'.busy
                   /\ pc' # "crashed" )
                 => metrics' \in {metrics, <<>>}
              /\ removed \cap tick'.failed = {}
              /\ removed \subseteq tick'.idle ]_vars

\* C18 witness: a scale-in ran its passes to the end with workers whose
\* scrape returned an error, and removed none of them.
ScaleInEndedWithUnobservableWorkers ==
    /\ pc = "sleep"
    /\ tick.path = "scale_down"
    /\ tick.passes >= 1
    /\ tick.failed # {}
    /\ tick.raised = "none"
    /\ tick.removed = {}


\* Every worker name of a document is "bf-worker<ii>" with ii in range(0, mx)
WorkerNamesInRange(doc, mx) ==
    \A k \in 1..Len(doc) :
        StartsWithBfWorker(doc[k].name)
            => \E ii \in 0..(mx - 1) : doc[k].name = WorkerNameOf(ii)

\* C19: no step takes the number of workers the sandbox defines to below
\* expected_worker_num or below 1, and no step that starts from a sandbox
\* whose worker names are all bf-worker<ii>, ii < max_worker, takes that
\* number up to more than max_worker.
FleetSizeBounds ==
    [][ /\ WorkerCount(sandbox') < WorkerCount(sandbox)
            => /\ WorkerCount(sandbox') >= expected_worker_num'
               /\ WorkerCount(sandbox') >= 1
        /\ ( /\ WorkerNamesInRange(sandbox, max_worker)
             /\ WorkerCount(sandbox') > WorkerCount(sandbox) )
            => /\ WorkerCount(sandbox') <= max_worker
               /\ WorkerNamesInRange(sandbox', max_worker) ]_vars

\* C19 witness: with max_worker = 2, scale_up has taken the sandbox from one
\* worker to max_worker workers.
ScaledOutToMaxWorker ==
    /\ max_worker = 2
    /\ tick.path = "scale_up"
    /\ tick.submit = "ok"
    /\ tick.sent = sandbox
    /\ sandbox = << bf_server, Container("bf-worker0", "worker"),
                    Container("bf-worker1", "worker") >>


\* The entries of a document whose name does not start with "bf-worker", in
\* the document's order
NonWorkers(doc) == SelectSeq(doc, LAMBDA container : ~StartsWithBfWorker(container.name))

\* C20: every document submitted in a tick has the non-worker entries of the
\* sandbox the tick fetched, unchanged and in the same order, and so has the
\* sandbox after any step.
NonWorkersUntouched ==
    [][ /\ tick'.submits > tick.submits
            => NonWorkers(tick'.sent) = NonWorkers(sandbox)
        /\ NonWorkers(sandbox') = NonWorkers(sandbox) ]_vars

\* C20 witness: scale_up has submitted a document in which bf-server stands
\* where it stood, between the fetched worker and the appended one.
SubmittedAroundServerEntry ==
    /\ tick.path = "scale_up"
    /\ tick.submits = 1
    /\ tick.sent = << Container("bf-worker2", "worker-b"), bf_server,
                      Container("bf-worker0", "worker-b") >>

====
